---- MODULE Spec2Model ----
(***************************************************************************)
(* Model of the zed-unicode extension (src/src/lib.rs) and of the alias    *)
(* table built by unicode-ls (src/unicode-ls/src/main.rs).                 *)
(*                                                                         *)
(* A Rust string is a sequence of one-character strings, so that           *)
(* format!, starts_with, replace, split and to_lowercase are computed      *)
(* character by character.                                                 *)
(***************************************************************************)
EXTENDS Integers, Sequences, FiniteSets, TLC

VARIABLES
    platform,                \* zed::current_platform(): [os, arch]
    cached_ls_binary_path,   \* UnicodeExtension.cached_ls_binary_path
    disk,                    \* the extension's working directory
    last,                    \* the language_server_binary_path call that has
                             \* returned and that the host has not taken yet
    prev,                    \* the tier and result of the latest call, and the
                             \* directory it extracted an archive into
    triple_calls,            \* results of direct target_triple calls
    data,                    \* unicode-ls: the text of data.txt
    unicode,                 \* unicode-ls: the curated table as written
    generated,               \* unicode-ls: the vector snippets after the loop over
                             \* the lines of data.txt
    snippets,                \* unicode-ls: the collection given to server::start
    started                  \* unicode-ls: server::start has been called

vars == <<platform, cached_ls_binary_path, disk, last, prev, triple_calls,
          data, unicode, generated, snippets, started>>

extVars == <<platform, cached_ls_binary_path, disk, last, prev>>
aliasVars == <<data, unicode, generated, snippets, started>>

----------------------------------------------------------------------------
(* Bounds *)

\* release tags v1 .. v<MaxVersion>
MaxVersion == 2
\* direct calls of target_triple on one platform
MaxTripleCalls == 2
\* lines of data.txt plus pairs written in the curated table
MaxInput == 3

----------------------------------------------------------------------------
(* Option and Result *)

None == [some |-> FALSE]
Some(x) == [some |-> TRUE, val |-> x]
Ok(x) == [ok |-> TRUE, val |-> x]
Err(e) == [ok |-> FALSE, err |-> e]

----------------------------------------------------------------------------
(* String literals of lib.rs *)

\* "unicode-ls"
U_LS == <<"u","n","i","c","o","d","e","-","l","s">>
\* "aripiprazole/zed-unicode"
REPO == <<"a","r","i","p","i","p","r","a","z","o","l","e","/","z","e","d","-","u","n","i","c","o","d","e">>
AARCH64 == <<"a","a","r","c","h","6","4">>
X86_64 == <<"x","8","6","_","6","4">>
APPLE_DARWIN == <<"a","p","p","l","e","-","d","a","r","w","i","n">>
UNKNOWN_LINUX_GNU == <<"u","n","k","n","o","w","n","-","l","i","n","u","x","-","g","n","u">>
PC_WINDOWS_MSVC == <<"p","c","-","w","i","n","d","o","w","s","-","m","s","v","c">>
DOT_ZIP == <<".","z","i","p">>
\* LanguageServerInstallationStatus
CheckingForUpdate == <<"C","h","e","c","k","i","n","g","F","o","r","U","p","d","a","t","e">>
Downloading == <<"D","o","w","n","l","o","a","d","i","n","g">>

\* zed::Architecture and zed::Os
Architectures == {"Aarch64", "X86", "X8664"}
OperatingSystems == {"Mac", "Linux", "Windows"}
Platforms == [os : OperatingSystems, arch : Architectures]
\* the platforms the extension is run on: a supported one, and one that is not
ExtensionPlatforms ==
    {[os |-> "Linux", arch |-> "X8664"], [os |-> "Windows", arch |-> "X86"]}

----------------------------------------------------------------------------
(* target_triple *)

ArchName(arch, binary) ==
    IF arch = "Aarch64" /\ binary = U_LS THEN Ok(AARCH64)
    ELSE IF arch = "X8664" /\ binary = U_LS THEN Ok(X86_64)
    ELSE Err("unsupported architecture: " \o arch)

OsName(os, binary) ==
    IF os = "Mac" /\ binary = U_LS THEN Ok(APPLE_DARWIN)
    ELSE IF os = "Linux" /\ binary = U_LS THEN Ok(UNKNOWN_LINUX_GNU)
    ELSE IF os = "Windows" /\ binary = U_LS THEN Ok(PC_WINDOWS_MSVC)
    ELSE Err("unsupported platform")

FormatTriple_os_first(binary, arch, os) == binary \o <<"-">> \o os \o <<"-">> \o arch

\* format!("{binary}-{arch}-{os}")
FormatTriple(binary, arch, os) == binary \o <<"-">> \o arch \o <<"-">> \o os

target_triple(pf, binary) ==
    LET arch == ArchName(pf.arch, binary)
        os == OsName(pf.os, binary)
    IN  IF ~arch.ok THEN arch
        ELSE IF ~os.ok THEN os
        ELSE Ok(FormatTriple(binary, arch.val, os.val))

----------------------------------------------------------------------------
(* The working directory *)

DigitChar == <<"1","2","3","4","5","6","7","8","9">>
\* release.version: "v1", "v2", ...
Versions == {<<"v", DigitChar[n]>> : n \in 1..MaxVersion}

\* format!("{binary}-{}", release.version)
version_dir(binary, version) == binary \o <<"-">> \o version
\* format!("{version_dir}/{binary}")
binary_path(vdir, binary) == vdir \o <<"/">> \o binary

\* an entry of the working directory that does not start with "unicode-ls"
DATA_DIR == <<"d","a","t","a">>
\* the entries the working directory can hold
EntryNames == {version_dir(U_LS, v) : v \in Versions} \cup {DATA_DIR}

\* an entry is absent, a directory without the file unicode-ls in it ("dir"),
\* or a directory holding the regular file unicode-ls ("bin")
EntryStates == {"absent", "dir", "bin"}
Disks == {d \in [EntryNames -> EntryStates] : d[DATA_DIR] # "bin"}

\* mutant of is_file: no path is found to be a file
is_file_never(d, path) == FALSE

\* fs::metadata(path).map_or(false, |stat| stat.is_file())
is_file(d, path) ==
    \E n \in DOMAIN d : path = binary_path(n, U_LS) /\ d[n] = "bin"

\* str::starts_with
starts_with(s, p) == Len(s) >= Len(p) /\ \A i \in 1..Len(p) : s[i] = p[i]

----------------------------------------------------------------------------
(* What a call does to the host, in order *)

\* one host call: its name, its argument, its destination (download_file)
\* and whether it succeeded
Ev(op, arg, to, ok) == [op |-> op, arg |-> arg, to |-> to, ok |-> ok]

Ops(log) == {log[i].op : i \in DOMAIN log}

\* mutant of set_language_server_installation_status: nothing is emitted
set_language_server_installation_status_silent(log, status) == log

\* zed::set_language_server_installation_status(language_server_id, &status)
set_language_server_installation_status(log, status) ==
    Append(log, Ev("set_status", status, <<>>, TRUE))

----------------------------------------------------------------------------
(* The worktree: the names worktree.which finds on the workspace path *)

BIN_PREFIX == <<"/","b","i","n","/">>

\* the names a worktree may hold on this platform
PathNames(pf) ==
    {U_LS} \cup (IF target_triple(pf, U_LS).ok
                 THEN {target_triple(pf, U_LS).val} ELSE {})

Worktrees(pf) == SUBSET PathNames(pf)

\* worktree.which(name)
which(wt, name) == IF name \in wt THEN Some(BIN_PREFIX \o name) ELSE None

----------------------------------------------------------------------------
(* zed::latest_github_release *)

DOT_SHA256 == <<".","s","h","a","2","5","6">>
URL_PREFIX == <<"h","t","t","p","s",":","/","/","d","l","/">>

Asset(name) == [name |-> name, download_url |-> URL_PREFIX \o name]

\* the asset lists a release may carry: the archive of this platform, a
\* checksum file whose name only starts with the archive's name, or both
AssetLists(pf) ==
    LET t == target_triple(pf, U_LS)
        base == IF t.ok THEN t.val ELSE U_LS
        zip == Asset(base \o DOT_ZIP)
        sum == Asset(base \o DOT_ZIP \o DOT_SHA256)
    IN  {<<zip>>, <<sum>>, <<sum, zip>>}

Releases(pf) ==
    {Err("no release found")} \cup
    {Ok([version |-> v, assets |-> a]) : v \in Versions, a \in AssetLists(pf)}

\* mutant of find_asset: the first asset whose name starts with the name
RECURSIVE find_asset_by_prefix(_, _)
find_asset_by_prefix(assets, asset_name) ==
    IF assets = <<>> THEN None
    ELSE IF starts_with(Head(assets).name, asset_name) THEN Some(Head(assets))
    ELSE find_asset_by_prefix(Tail(assets), asset_name)

\* release.assets.iter().find(|asset| asset.name == asset_name)
RECURSIVE find_asset(_, _)
find_asset(assets, asset_name) ==
    IF assets = <<>> THEN None
    ELSE IF Head(assets).name = asset_name THEN Some(Head(assets))
    ELSE find_asset(Tail(assets), asset_name)

----------------------------------------------------------------------------
(* zed::download_file and the cleanup of lines 74-84 *)

\* a successful download_file(url, version_dir, Zip): the archive, which
\* holds the file unicode-ls at its root, is extracted into version_dir
download_file(d, vdir) == [d EXCEPT ![vdir] = "bin"]

\* fs::read_dir("."): the listing fails, or it yields the entries present
\* in any order, all of them or some of them followed by a failed read
Present(d) == {n \in DOMAIN d : d[n] # "absent"}

RECURSIVE Orders(_, _)
Orders(S, k) ==
    IF k = 0 THEN {<<>>}
    ELSE UNION {{<<x>> \o p : p \in Orders(S \ {x}, k - 1)} : x \in S}

Listing(p, failed) ==
    [i \in 1..(Len(p) + (IF failed THEN 1 ELSE 0)) |->
        IF i <= Len(p) THEN Ok(p[i]) ELSE Err("io")]

ReadDirs(d) ==
    LET n == Cardinality(Present(d)) IN
    {Err("failed to list working directory")}
    \cup {Ok(Listing(p, FALSE)) : p \in Orders(Present(d), n)}
    \cup UNION {{Ok(Listing(p, TRUE)) : p \in Orders(Present(d), k)} : k \in 0..(n - 1)}

\* mutant of is_stale: the new version directory is not spared
is_stale_with_new(file_name, binary, vdir) == starts_with(file_name, binary)

\* mutant of is_stale: the name compared for equality, not for its prefix
is_stale_exact(file_name, binary, vdir) ==
    file_name = binary /\ file_name # vdir

\* file_name.starts_with(binary) && file_name != version_dir
is_stale(file_name, binary, vdir) ==
    starts_with(file_name, binary) /\ file_name # vdir

\* fs::remove_dir_all(entry.path()): the entry is removed, or the removal
\* fails and the entry stays
RemoveOutcomes == {"removed", "failed"}

remove_dir_all(d, name, outcome) ==
    [d EXCEPT ![name] = IF outcome = "removed" THEN "absent" ELSE d[name]]

\* mutant of cleanup: a removal that fails ends the call with an error
RECURSIVE cleanup_strict(_, _, _, _, _, _)
cleanup_strict(entries, d, log, rm, binary, vdir) ==
    IF entries = <<>> THEN [res |-> Ok(<<>>), disk |-> d, log |-> log]
    ELSE LET entry == Head(entries) IN
         IF ~entry.ok
         THEN [res |-> Err("failed to load directory entry"), disk |-> d,
               log |-> Append(log, Ev("next_entry", <<>>, <<>>, FALSE))]
         ELSE IF is_stale(entry.val, binary, vdir)
         THEN IF rm[entry.val] = "failed"
              THEN [res |-> Err("failed to remove directory"), disk |-> d,
                    log |-> Append(log, Ev("remove_dir_all", entry.val, <<>>, FALSE))]
              ELSE cleanup_strict(Tail(entries),
                                  remove_dir_all(d, entry.val, rm[entry.val]),
                                  Append(log, Ev("remove_dir_all", entry.val, <<>>, TRUE)),
                                  rm, binary, vdir)
         ELSE cleanup_strict(Tail(entries), d, log, rm, binary, vdir)

\* for entry in entries { ... } of lines 77-84; rm gives every removal's outcome
RECURSIVE cleanup(_, _, _, _, _, _)
cleanup(entries, d, log, rm, binary, vdir) ==
    IF entries = <<>> THEN [res |-> Ok(<<>>), disk |-> d, log |-> log]
    ELSE LET entry == Head(entries) IN
         IF ~entry.ok
         THEN [res |-> Err("failed to load directory entry"), disk |-> d,
               log |-> Append(log, Ev("next_entry", <<>>, <<>>, FALSE))]
         ELSE IF is_stale(entry.val, binary, vdir)
         THEN cleanup(Tail(entries),
                      remove_dir_all(d, entry.val, rm[entry.val]),
                      Append(log, Ev("remove_dir_all", entry.val, <<>>,
                                     rm[entry.val] = "removed")),
                      rm, binary, vdir)
         ELSE cleanup(Tail(entries), d, log, rm, binary, vdir)

\* zed::make_file_executable(path): it cannot succeed on a missing file
MakeExecutables(d, path) == IF is_file(d, path) THEN BOOLEAN ELSE {FALSE}

\* mutant of make_executable_result: the error is dropped
make_executable_result_ignored(ok, bpath) == Ok(bpath)

\* zed::make_file_executable(&binary_path)?; Ok(binary_path)
make_executable_result(ok, bpath) ==
    IF ok THEN Ok(bpath) ELSE Err("failed to make file executable")

----------------------------------------------------------------------------
(* language_server_binary_path *)

\* mutants of cache_hit: the test of the file inverted, or left out
cache_hit_inverted(cache, d) == cache.some /\ ~is_file(d, cache.val)
cache_hit_unchecked(cache, d) == cache.some

\* if let Some(path) = &self.cached_ls_binary_path { if is_file(path) ... }
cache_hit(cache, d) == cache.some /\ is_file(d, cache.val)

\* mutant of tier_of: a failed target_triple does not end the call
tier_of_platform_unchecked(wt, pf, cache, d) ==
    IF which(wt, U_LS).some THEN 1
    ELSE IF target_triple(pf, U_LS).ok /\ which(wt, target_triple(pf, U_LS).val).some
    THEN 2
    ELSE IF cache_hit(cache, d) THEN 3
    ELSE 4

\* mutant of tier_of: the cache is consulted before the workspace
tier_of_cache_first(wt, pf, cache, d) ==
    IF cache.some /\ is_file(d, cache.val) THEN 3
    ELSE IF which(wt, U_LS).some THEN 1
    ELSE IF ~target_triple(pf, U_LS).ok THEN 0
    ELSE IF which(wt, target_triple(pf, U_LS).val).some THEN 2
    ELSE 4

\* the order of the lookups of lines 102-117: the tier that serves the call
\* (0: target_triple fails at line 106, 4: download)
tier_of(wt, pf, cache, d) ==
    IF which(wt, U_LS).some THEN 1
    ELSE IF ~target_triple(pf, U_LS).ok THEN 0
    ELSE IF which(wt, target_triple(pf, U_LS).val).some THEN 2
    ELSE IF cache_hit(cache, d) THEN 3
    ELSE 4

\* mutant of store: an error clears the cache
store_cleared(cache, res) == IF res.ok THEN Some(res.val) ELSE None

\* mutant of store: the path is not kept
store_never(cache, res) == cache

\* let binary_path = self.download(..)?; self.cached_ls_binary_path = Some(..)
store(cache, res) == IF res.ok THEN Some(res.val) ELSE cache

\* the call returns res, having left the cache and the disk as given; rel is
\* what latest_github_release answered, None when it was not asked
Extracted(log) ==
    IF \E i \in DOMAIN log : log[i].op = "download_file" /\ log[i].ok
    THEN Some(log[CHOOSE i \in DOMAIN log :
                    log[i].op = "download_file" /\ log[i].ok].to)
    ELSE None

Return(wt, tier, rel, res, cache1, disk1, log) ==
    /\ cached_ls_binary_path' = cache1
    /\ disk' = disk1
    /\ last' = [called |-> TRUE, wt |-> wt, tier |-> tier, release |-> rel,
                cache0 |-> cached_ls_binary_path, disk0 |-> disk,
                prev0 |-> prev, res |-> res, log |-> log]
    /\ prev' = [tier |-> tier, res |-> res, extracted |-> Extracted(log)]
    /\ UNCHANGED <<platform, triple_calls>>
    /\ UNCHANGED aliasVars

\* lines 117-122: the result of download is propagated or cached
DownloadReturn(wt, rel, res, disk1, log) ==
    Return(wt, 4, Some(rel), res, store(cached_ls_binary_path, res), disk1, log)

\* lines 87-89
Finish(wt, rel, bpath, disk1, log) ==
    \E mk \in MakeExecutables(disk1, bpath) :
        DownloadReturn(wt, rel, make_executable_result(mk, bpath), disk1,
                       Append(log, Ev("make_file_executable", bpath, <<>>, mk)))

\* lines 74-84, after a successful download_file
Cleanup(wt, rel, binary, vdir, bpath, d1, log) ==
    \E rd \in ReadDirs(d1) :
        LET log1 == Append(log, Ev("read_dir", <<".">>, <<>>, rd.ok)) IN
        IF ~rd.ok THEN DownloadReturn(wt, rel, rd, d1, log1)
        ELSE \E rm \in [{n \in Present(d1) :
                            /\ is_stale(n, binary, vdir)
                            /\ \E i \in DOMAIN rd.val : rd.val[i] = Ok(n)}
                        -> RemoveOutcomes] :
                LET c == cleanup(rd.val, d1, log1, rm, binary, vdir) IN
                IF ~c.res.ok THEN DownloadReturn(wt, rel, c.res, c.disk, c.log)
                ELSE Finish(wt, rel, bpath, c.disk, c.log)

\* download(language_server_id, binary, repo), lines 35-90
download(wt, binary, repo, log) ==
    \E release \in Releases(platform) :
        LET log1 == Append(log, Ev("latest_github_release", repo, <<>>, release.ok))
            triple == target_triple(platform, binary)
        IN
        IF ~release.ok THEN DownloadReturn(wt, release, release, disk, log1)
        ELSE IF ~triple.ok THEN DownloadReturn(wt, release, triple, disk, log1)
        ELSE
        LET asset_name == triple.val \o DOT_ZIP
            asset == find_asset(release.val.assets, asset_name)
            vdir == version_dir(binary, release.val.version)
            bpath == binary_path(vdir, binary)
        IN
        IF ~asset.some
        THEN DownloadReturn(wt, release, Err("no asset found matching"), disk, log1)
        ELSE IF ~is_file(disk, bpath)
        THEN LET log2 == set_language_server_installation_status(log1, Downloading) IN
             \E dl \in BOOLEAN :
                LET log3 == Append(log2, Ev("download_file", asset.val.download_url,
                                            vdir, dl))
                IN
                IF ~dl
                THEN DownloadReturn(wt, release, Err("failed to download file"),
                                    disk, log3)
                ELSE Cleanup(wt, release, binary, vdir, bpath,
                             download_file(disk, vdir), log3)
        ELSE Finish(wt, release, bpath, disk, log1)

\* language_server_binary_path(language_server_id, worktree), lines 92-123
language_server_binary_path ==
    /\ ~last.called
    /\ \E wt \in Worktrees(platform) :
        LET tier == tier_of(wt, platform, cached_ls_binary_path, disk)
            triple == target_triple(platform, U_LS)
            log0 == set_language_server_installation_status(<<>>, CheckingForUpdate)
            log1 == Append(log0, Ev("which", U_LS, <<>>, tier = 1))
            log2 == IF triple.ok
                    THEN Append(log1, Ev("which", triple.val, <<>>, tier = 2))
                    ELSE log1
        IN
        CASE tier = 1 ->
                Return(wt, 1, None, Ok(which(wt, U_LS).val),
                       cached_ls_binary_path, disk, log1)
          [] tier = 0 ->
                Return(wt, 0, None, triple, cached_ls_binary_path, disk, log1)
          [] tier = 2 ->
                Return(wt, 2, None, Ok(which(wt, triple.val).val),
                       cached_ls_binary_path, disk, log2)
          [] tier = 3 ->
                Return(wt, 3, None, Ok(cached_ls_binary_path.val),
                       cached_ls_binary_path, disk, log2)
          [] OTHER -> download(wt, U_LS, REPO, log2)

----------------------------------------------------------------------------
(* The environment: a file or a directory is deleted externally *)

NoPrev == [tier |-> 0, res |-> Err("not called"), extracted |-> None]

NoCall == [called |-> FALSE, wt |-> {}, tier |-> 0, release |-> None,
           cache0 |-> None, disk0 |-> [n \in EntryNames |-> "absent"],
           prev0 |-> NoPrev, res |-> Err("not called"), log |-> <<>>]

ExternalDelete ==
    \E n \in EntryNames, s \in {"absent", "dir"} :
        /\ ~last.called
        /\ disk[n] # "absent"
        /\ disk[n] # s
        /\ disk' = [disk EXCEPT ![n] = s]
        /\ UNCHANGED <<platform, cached_ls_binary_path, last, prev, triple_calls>>
        /\ UNCHANGED aliasVars

\* language_server_command, lines 133-145: the host takes the command built
\* from the returned path, or the error; calls of one instance are serialized
HostTakes ==
    /\ last.called
    /\ last' = NoCall
    /\ UNCHANGED <<platform, cached_ls_binary_path, disk, prev, triple_calls>>
    /\ UNCHANGED aliasVars

----------------------------------------------------------------------------
(* The extension: Extension::new, then calls and external deletions *)

AliasIdle ==
    /\ data = <<>>
    /\ unicode = <<>>
    /\ generated = <<>>
    /\ snippets = <<>>
    /\ started = FALSE

Init ==
    /\ platform \in ExtensionPlatforms
    /\ cached_ls_binary_path = None
    /\ disk \in Disks
    /\ last = NoCall
    /\ prev = NoPrev
    /\ triple_calls = <<>>
    /\ AliasIdle

Next ==
    \/ language_server_binary_path
    \/ HostTakes
    \/ ExternalDelete

Spec == Init /\ [][Next]_vars

----------------------------------------------------------------------------
(* target_triple called on its own, for any binary kind *)

\* "unicode-lsp", "rust-analyzer"
U_LSP == <<"u","n","i","c","o","d","e","-","l","s","p">>
RUST_ANALYZER == <<"r","u","s","t","-","a","n","a","l","y","z","e","r">>
Binaries == {U_LS, U_LSP, RUST_ANALYZER}

ExtensionIdle ==
    /\ cached_ls_binary_path = None
    /\ disk = [n \in EntryNames |-> "absent"]
    /\ last = NoCall
    /\ prev = NoPrev

TargetTriple ==
    \E binary \in Binaries :
        /\ Len(triple_calls) < MaxTripleCalls
        /\ triple_calls' = Append(triple_calls,
                                  [binary |-> binary,
                                   res |-> target_triple(platform, binary)])
        /\ UNCHANGED <<platform, cached_ls_binary_path, disk, last, prev>>
        /\ UNCHANGED aliasVars

InitTriple ==
    /\ platform \in Platforms
    /\ triple_calls = <<>>
    /\ ExtensionIdle
    /\ AliasIdle

NextTriple == TargetTriple

SpecTriple == InitTriple /\ [][NextTriple]_vars

----------------------------------------------------------------------------
(* unicode-ls: strings *)

\* the printable ASCII characters, from U+0020 to U+007E (the grave accent,
\* which a TLA+ string cannot hold, by its code point)
PRINTABLE == <<" ","!","\"","#","$","%","&","'","(",")","*","+",",","-",".","/","0","1","2","3","4","5","6","7","8","9",":",";","<","=",">","?","@","A","B","C","D","E","F","G","H","I","J","K","L","M","N","O","P","Q","R","S","T","U","V","W","X","Y","Z","[","\\","]","^","_","U+96","a","b","c","d","e","f","g","h","i","j","k","l","m","n","o","p","q","r","s","t","u","v","w","x","y","z","{","|","}","~">>

\* the character of code point n: itself when printable ASCII, else named by
\* its code point
Chr(n) == IF n >= 32 /\ n <= 126 THEN PRINTABLE[n - 31] ELSE "U+" \o ToString(n)

\* the code point of a printable ASCII character, -1 for any other
CodeTable ==
    [c \in {PRINTABLE[i] : i \in DOMAIN PRINTABLE} |->
        31 + (CHOOSE i \in DOMAIN PRINTABLE : PRINTABLE[i] = c)]

Code(c) == IF c \in DOMAIN CodeTable THEN CodeTable[c] ELSE -1

\* format!("{c}")
format_char(c) == <<c>>

\* char::to_lowercase, on the characters of the record file
LowerChar(c) == IF Code(c) >= 65 /\ Code(c) <= 90 THEN Chr(Code(c) + 32) ELSE c

\* str::to_lowercase
to_lowercase(s) == [i \in DOMAIN s |-> LowerChar(s[i])]

\* str::replace(from, to): the matches of from, left to right, not overlapping
matches_at(s, i, from) ==
    /\ i + Len(from) - 1 <= Len(s)
    /\ \A j \in 1..Len(from) : s[i + j - 1] = from[j]

RECURSIVE replace_from(_, _, _, _, _)
replace_from(s, from, to, i, out) ==
    IF i > Len(s) THEN out
    ELSE IF matches_at(s, i, from)
    THEN replace_from(s, from, to, i + Len(from), out \o to)
    ELSE replace_from(s, from, to, i + 1, Append(out, s[i]))

replace(s, from, to) == replace_from(s, from, to, 1, <<>>)

\* str::split(sep), sep one character: the pieces between the separators
RECURSIVE split_from(_, _, _, _, _)
split_from(s, sep, i, start, pieces) ==
    IF i > Len(s) THEN Append(pieces, SubSeq(s, start, Len(s)))
    ELSE IF s[i] = sep
    THEN split_from(s, sep, i + 1, i + 1, Append(pieces, SubSeq(s, start, i - 1)))
    ELSE split_from(s, sep, i + 1, start, pieces)

split(s, sep) == split_from(s, sep, 1, 1, <<>>)

\* the value of a hexadecimal digit, -1 for any other character
HexDigit(c) ==
    LET n == Code(c) IN
    IF n >= 48 /\ n <= 57 THEN n - 48
    ELSE IF n >= 65 /\ n <= 70 THEN n - 55
    ELSE IF n >= 97 /\ n <= 102 THEN n - 87
    ELSE -1

\* char::MAX, U+10FFFF
CHAR_MAX == 1114111

\* u32::from_str_radix(s, 16): an optional "+", then one digit or more; the
\* value must fit 32 bits, that is 8 digits after the leading zeros.  A value
\* over CHAR_MAX, which char::try_from refuses whatever it is, is kept as
\* CHAR_MAX + 1.
RECURSIVE hex_value(_, _, _)
hex_value(digits, acc, significant) ==
    IF digits = <<>> THEN Ok(acc)
    ELSE LET d == HexDigit(Head(digits))
             n == IF acc = 0 /\ d = 0 THEN 0 ELSE significant + 1
             v == acc * 16 + d
         IN  IF d < 0 THEN Err("invalid digit")
             ELSE IF n > 8 THEN Err("number too large")
             ELSE hex_value(Tail(digits), IF v > CHAR_MAX THEN CHAR_MAX + 1 ELSE v, n)

from_str_radix(s) ==
    LET digits == IF s # <<>> /\ Head(s) = "+" THEN Tail(s) ELSE s IN
    IF s = <<>> THEN Err("empty")
    ELSE IF digits = <<>> THEN Err("invalid digit")
    ELSE hex_value(digits, 0, 0)

\* char::try_from(u32): a Unicode scalar value
char_try_from(n) ==
    IF n > CHAR_MAX \/ (n >= 55296 /\ n <= 57343) THEN Err("not a char")
    ELSE Ok(Chr(n))

----------------------------------------------------------------------------
(* unicode-ls: get_prefix and main *)

LATIN == <<"L","A","T","I","N"," ">>
BALINESE == <<"B","A","L","I","N","E","S","E"," ">>
GREEK == <<"G","R","E","E","K"," ">>
TAI_THAM_HORA == <<"T","A","I"," ","T","H","A","M"," ","H","O","R","A"," ">>
THAM_COMBINING_CRYPTOGRAMMIC == <<"T","H","A","M"," ","C","O","M","B","I","N","I","N","G"," ","C","R","Y","P","T","O","G","R","A","M","M","I","C"," ">>
TAI_THAM_SIGN == <<"T","A","I"," ","T","H","A","M"," ","S","I","G","N"," ">>
TAI_THAM_VOWEL == <<"T","A","I"," ","T","H","A","M"," ","V","O","W","E","L"," ">>
CONTROL == <<"<","c","o","n","t","r","o","l",">">>

\* mutant of get_prefix: "<control>" is not refused
get_prefix_any(s) ==
    Some(replace(replace(replace(replace(replace(replace(replace(replace(s,
        LATIN, <<>>), BALINESE, <<>>), GREEK, <<>>), TAI_THAM_HORA, <<>>),
        THAM_COMBINING_CRYPTOGRAMMIC, <<>>), TAI_THAM_SIGN, <<>>),
        TAI_THAM_VOWEL, <<>>), <<" ">>, <<"-">>))

\* get_prefix, lines 14-27
get_prefix(s) ==
    LET s1 == replace(s, LATIN, <<>>)
        s2 == replace(s1, BALINESE, <<>>)
        s3 == replace(s2, GREEK, <<>>)
        s4 == replace(s3, TAI_THAM_HORA, <<>>)
        s5 == replace(s4, THAM_COMBINING_CRYPTOGRAMMIC, <<>>)
        s6 == replace(s5, TAI_THAM_SIGN, <<>>)
        s7 == replace(s6, TAI_THAM_VOWEL, <<>>)
        s8 == replace(s7, <<" ">>, <<"-">>)
    IN  IF s8 = CONTROL THEN None ELSE Some(s8)

Snippet(prefix, description, body) ==
    [scope |-> None, prefix |-> prefix, description |-> description, body |-> body]

\* mutant of push: the entry is put in front
push_front(vec, x) == <<x>> \o vec

\* Vec::push
push(vec, x) == Append(vec, x)

\* the body of the loop of lines 104-132, for one line
parse_line(line) ==
    LET fields == split(line, ";")
        c == from_str_radix(fields[1])
        ch == char_try_from(c.val)
        alias == to_lowercase(fields[2])
        prefix == get_prefix(alias)
    IN  IF line = <<>> THEN None
        ELSE IF Len(fields) < 2 THEN None
        ELSE IF ~c.ok THEN None
        ELSE IF ~ch.ok THEN None
        ELSE IF ~prefix.some THEN None
        ELSE Some(Snippet(prefix.val, Some(format_char(ch.val)), format_char(ch.val)))

\* mutant of generate: the loop ends at the first line that gives no entry
RECURSIVE generate_aborting(_, _)
generate_aborting(lines, vec) ==
    IF lines = <<>> THEN vec
    ELSE LET entry == parse_line(Head(lines)) IN
         IF entry.some THEN generate_aborting(Tail(lines), push(vec, entry.val))
         ELSE vec

\* for line in include_str!("data.txt").split("\n") { ... }
RECURSIVE generate(_, _)
generate(lines, vec) ==
    IF lines = <<>> THEN vec
    ELSE LET entry == parse_line(Head(lines)) IN
         generate(Tail(lines), IF entry.some THEN push(vec, entry.val) ELSE vec)

\* create_snippet_map!, lines 6-12: the pairs are inserted in the order
\* written, a later pair replacing an earlier one of the same key
RECURSIVE create_snippet_map(_, _)
create_snippet_map(pairs, m) ==
    IF pairs = <<>> THEN m
    ELSE create_snippet_map(Tail(pairs),
            [k \in DOMAIN m \cup {Head(pairs)[1]} |->
                IF k = Head(pairs)[1] THEN Head(pairs)[2] ELSE m[k]])

EmptyMap == [k \in {} |-> <<>>]

\* mutant of append_curated: the description is the mnemonic
RECURSIVE append_curated_named(_, _, _)
append_curated_named(keys, m, vec) ==
    IF keys = <<>> THEN vec
    ELSE append_curated_named(Tail(keys), m,
            push(vec, Snippet(Head(keys), Some(Head(keys)), m[Head(keys)])))

\* for (name, value) in unicode { ... }, lines 134-141, the HashMap
\* yielding its keys in the order keys
RECURSIVE append_curated(_, _, _)
append_curated(keys, m, vec) ==
    IF keys = <<>> THEN vec
    ELSE append_curated(Tail(keys), m,
            push(vec, Snippet(Head(keys), Some(m[Head(keys)]), m[Head(keys)])))

\* mutant of keep: only the presence of the description is tested
keep_described(s) == s.description.some

\* the filter of lines 148-154
keep(s) ==
    /\ s.body # <<>>
    /\ IF s.description.some THEN s.description.val # <<>> ELSE FALSE

\* the record files: these lines, joined by "\n": two
\* records of characters, <control> in two letter cases, a surrogate code
\* point, a first field that is no number, a line of one field
LinePool ==
    { <<"0","0","4","1",";","L","A","T","I","N"," ","C","A","P","I","T","A","L"," ","L","E","T","T","E","R"," ","A",";","L","u">>,
      <<"0","0","0","0",";","<","c","o","n","t","r","o","l",">",";","C","c">>,
      <<"0","0","0","1",";","<","C","O","N","T","R","O","L",">",";","C","c">>,
      <<"0","0","A","C",";","N","O","T"," ","S","I","G","N",";","S","m">>,
      <<"D","8","0","0",";","X">>,
      <<"Z","Z",";","X">>,
      <<"0","0","4","2">> }

RECURSIVE join(_, _)
join(lines, sep) ==
    IF lines = <<>> THEN <<>>
    ELSE IF Len(lines) = 1 THEN Head(lines)
    ELSE Head(lines) \o <<sep>> \o join(Tail(lines), sep)

DataFiles(n) == {join(ls, "\n") : ls \in [1..n -> LinePool]}

\* the curated tables: these pairs, as written; the last
\* pair has a value whose text is empty
RIGHTARROW == <<"r","i","g","h","t","a","r","r","o","w">>
LEFTRIGHTARROW == <<"L","e","f","t","r","i","g","h","t","a","r","r","o","w">>
NIL == <<"n","i","l">>
PairPool ==
    { <<RIGHTARROW, format_char(Chr(8594))>>,
      <<LEFTRIGHTARROW, format_char(Chr(8660))>>,
      <<NIL, <<>>>> }

Tables(k) == [1..k -> PairPool]

\* main, lines 30-160, up to the call of server::start
Main ==
    /\ ~started
    /\ LET m == create_snippet_map(unicode, EmptyMap)
           gen == generate(split(data, "\n"), <<>>)
       IN  \E keys \in Orders(DOMAIN m, Cardinality(DOMAIN m)) :
             /\ generated' = gen
             /\ snippets' = SelectSeq(append_curated(keys, m, gen), keep)
    /\ started' = TRUE
    /\ UNCHANGED <<data, unicode>>
    /\ UNCHANGED <<platform, cached_ls_binary_path, disk, last, prev, triple_calls>>

InitAlias ==
    /\ \E n \in 0..MaxInput : \E k \in 0..(MaxInput - n) :
            /\ data \in DataFiles(n)
            /\ unicode \in Tables(k)
    /\ generated = <<>>
    /\ snippets = <<>>
    /\ started = FALSE
    /\ platform = [os |-> "Linux", arch |-> "X8664"]
    /\ triple_calls = <<>>
    /\ ExtensionIdle

NextAlias == Main

SpecAlias == InitAlias /\ [][NextAlias]_vars

----------------------------------------------------------------------------
(* Properties of the extension.  They read the call that has just returned:
   while last.called holds, disk and cached_ls_binary_path are what the
   call left. *)

Queried(log) == "latest_github_release" \in Ops(log)
Downloaded(log) == "download_file" \in Ops(log)

\* the paths worktree.which answers are files of the workspace, which the
\* model never deletes; a path of the working directory is a file when its
\* directory holds unicode-ls
FileExists(d, path) ==
    \/ starts_with(path, BIN_PREFIX)
    \/ \E n \in EntryNames : path = n \o <<"/">> \o U_LS /\ d[n] = "bin"

\* the entries of the working directory whose name starts with the kind
KindEntries(d) == {n \in EntryNames : d[n] # "absent" /\ starts_with(n, U_LS)}

\* the directory and the path of the release the call was answered
ReleaseDir == U_LS \o <<"-">> \o last.release.val.val.version
ReleasePath == ReleaseDir \o <<"/">> \o U_LS

\* C1 as stated: whichever tier served the first of two consecutive calls,
\* if it returned Ok(p) and p is still a file when the second call runs, the
\* second call returns Ok(p) and makes no release query and no download.
C1_AsStated ==
    (last.called /\ last.prev0.res.ok /\ FileExists(last.disk0, last.prev0.res.val))
    => /\ last.res = last.prev0.res
       /\ ~Queried(last.log)
       /\ ~Downloaded(last.log)

\* C1 amended: if the first call returned Ok(p) through the cache or the
\* download tier and p is still a file when the second call runs, the second
\* call makes no release query and no download, and it returns Ok(p) when
\* both of its workspace lookups miss.
C1_CachedPathReused ==
    (/\ last.called
     /\ last.prev0.res.ok
     /\ last.prev0.tier \in {3, 4}
     /\ FileExists(last.disk0, last.prev0.res.val))
    => /\ ~Queried(last.log)
       /\ ~Downloaded(last.log)
       /\ last.wt = {} => last.res = last.prev0.res

C1_Witness ==
    /\ last.called
    /\ last.prev0.res.ok
    /\ last.prev0.tier = 4
    /\ FileExists(last.disk0, last.prev0.res.val)
    /\ last.wt = {}
    /\ last.tier = 3
    /\ last.res = last.prev0.res

\* C2: when worktree.which finds the plain name, or misses it and finds the
\* target-triple name, the call returns the path found and makes no release
\* query, no download, no removal and no make_file_executable, whatever the
\* cache holds.
C2_WorkspaceLookupWins ==
    LET triple == target_triple(platform, U_LS)
        found == IF U_LS \in last.wt THEN U_LS ELSE triple.val
    IN
    (last.called /\ (U_LS \in last.wt \/ (triple.ok /\ triple.val \in last.wt)))
    => /\ last.res = Ok(BIN_PREFIX \o found)
       /\ Ops(last.log) \cap {"latest_github_release", "download_file",
                              "remove_dir_all", "make_file_executable"} = {}

C2_Witness ==
    /\ last.called
    /\ last.tier = 2
    /\ last.cache0.some
    /\ FileExists(last.disk0, last.cache0.val)
    /\ last.res = Ok(BIN_PREFIX \o target_triple(platform, U_LS).val)

\* C3: when the cache holds a path that is no longer a file and both
\* workspace lookups miss, the call is not served from the cache: it makes a
\* release query, downloads when the release's binary is absent, and on
\* success caches and returns the path of that release.
C3_StaleCacheBypassed ==
    (/\ last.called
     /\ last.cache0.some
     /\ ~FileExists(last.disk0, last.cache0.val)
     /\ last.wt = {})
    => /\ last.tier = 4
       /\ Queried(last.log)
       /\ (/\ last.release.val.ok
           /\ \E i \in DOMAIN last.release.val.val.assets :
                last.release.val.val.assets[i].name =
                    target_triple(platform, U_LS).val \o DOT_ZIP
           /\ ~FileExists(last.disk0, ReleasePath))
          => Downloaded(last.log)
       /\ last.res.ok =>
            /\ last.res.val = ReleasePath
            /\ cached_ls_binary_path = Some(last.res.val)
            /\ FileExists(disk, last.res.val)

C3_Witness ==
    /\ last.called
    /\ last.cache0.some
    /\ ~FileExists(last.disk0, last.cache0.val)
    /\ last.wt = {}
    /\ Downloaded(last.log)
    /\ last.res.ok
    /\ cached_ls_binary_path = Some(last.res.val)
    /\ cached_ls_binary_path # last.cache0

\* a call that installed afresh: download_file ran and succeeded, and the
\* call returned Ok
FreshInstall ==
    /\ last.called
    /\ last.res.ok
    /\ \E i \in DOMAIN last.log : last.log[i].op = "download_file" /\ last.log[i].ok

\* the entries whose removal the call attempted and failed
RemovalFailed ==
    {last.log[i].arg : i \in {j \in DOMAIN last.log :
                                last.log[j].op = "remove_dir_all" /\ ~last.log[j].ok}}

\* C4 as stated: after a fresh install the only entry of the working
\* directory whose name starts with the kind is the new version directory,
\* whatever the outcome of the removals.
C4_AsStated ==
    FreshInstall => KindEntries(disk) = {ReleaseDir}

\* C4 amended: after a fresh install the entries whose name starts with the
\* kind are the new version directory and the siblings whose removal failed;
\* when no removal failed the new version directory is the only one.
C4_OnlyFailedRemovalsRemain ==
    FreshInstall =>
        /\ KindEntries(disk) = {ReleaseDir} \cup (RemovalFailed \cap KindEntries(last.disk0))
        /\ RemovalFailed = {} => KindEntries(disk) = {ReleaseDir}

C4_Witness ==
    /\ FreshInstall
    /\ KindEntries(last.disk0) \ {ReleaseDir} # {}
    /\ RemovalFailed = {}
    /\ KindEntries(disk) = {ReleaseDir}

\* C7: a call that returns Ok through the download tier ends with a
\* successful make_file_executable on the returned path, after any download
\* and removal; when make_file_executable fails the call returns an error and
\* the cache keeps its value.
C7_ExecutableBeforeReturn ==
    (last.called /\ last.tier = 4) =>
        /\ last.res.ok =>
             last.log[Len(last.log)] =
                Ev("make_file_executable", last.res.val, <<>>, TRUE)
        /\ (\E i \in DOMAIN last.log :
                last.log[i].op = "make_file_executable" /\ ~last.log[i].ok)
           => /\ ~last.res.ok
              /\ cached_ls_binary_path = last.cache0

C7_Witness ==
    /\ last.called
    /\ last.tier = 4
    /\ last.res.ok
    /\ Downloaded(last.log)
    /\ "remove_dir_all" \in Ops(last.log)
    /\ last.log[Len(last.log)].op = "make_file_executable"

\* the six strings of the mapping table, written out
TripleTable ==
    [pf \in {pf \in Platforms : pf.arch \in {"Aarch64", "X8664"}} |->
        CASE pf.arch = "Aarch64" /\ pf.os = "Mac" ->
               <<"u","n","i","c","o","d","e","-","l","s","-","a","a","r","c","h","6","4","-","a","p","p","l","e","-","d","a","r","w","i","n">>
          [] pf.arch = "Aarch64" /\ pf.os = "Linux" ->
               <<"u","n","i","c","o","d","e","-","l","s","-","a","a","r","c","h","6","4","-","u","n","k","n","o","w","n","-","l","i","n","u","x","-","g","n","u">>
          [] pf.arch = "Aarch64" /\ pf.os = "Windows" ->
               <<"u","n","i","c","o","d","e","-","l","s","-","a","a","r","c","h","6","4","-","p","c","-","w","i","n","d","o","w","s","-","m","s","v","c">>
          [] pf.arch = "X8664" /\ pf.os = "Mac" ->
               <<"u","n","i","c","o","d","e","-","l","s","-","x","8","6","_","6","4","-","a","p","p","l","e","-","d","a","r","w","i","n">>
          [] pf.arch = "X8664" /\ pf.os = "Linux" ->
               <<"u","n","i","c","o","d","e","-","l","s","-","x","8","6","_","6","4","-","u","n","k","n","o","w","n","-","l","i","n","u","x","-","g","n","u">>
          [] pf.arch = "X8664" /\ pf.os = "Windows" ->
               <<"u","n","i","c","o","d","e","-","l","s","-","x","8","6","_","6","4","-","p","c","-","w","i","n","d","o","w","s","-","m","s","v","c">>]

\* C6: target_triple("unicode-ls") returns the string of the mapping table
\* for each of the six (architecture, operating system) pairs, the same one on
\* every call, and an error for any other architecture and for any binary
\* kind other than "unicode-ls".
C6_TripleTable ==
    \A i \in DOMAIN triple_calls :
        LET call == triple_calls[i] IN
        /\ (call.binary = U_LS /\ platform \in DOMAIN TripleTable)
              => call.res = Ok(TripleTable[platform])
        /\ (call.binary # U_LS \/ platform \notin DOMAIN TripleTable)
              => ~call.res.ok
        /\ \A j \in DOMAIN triple_calls :
              triple_calls[j].binary = call.binary => triple_calls[j].res = call.res

C6_Witness ==
    /\ Len(triple_calls) = 2
    /\ platform = [os |-> "Windows", arch |-> "X8664"]
    /\ triple_calls[1].binary = U_LS
    /\ triple_calls[2].binary = U_LS
    /\ triple_calls[1].res.ok
    /\ triple_calls[2].res = triple_calls[1].res

----------------------------------------------------------------------------
(* Properties of unicode-ls.  They read the state after main has built the
   collection it passes to server::start. *)

Lines == split(data, "\n")
Fields(line) == split(line, ";")

\* the record has two fields at least and its first field is a character
HasChar(line) ==
    /\ Len(Fields(line)) >= 2
    /\ from_str_radix(Fields(line)[1]).ok
    /\ char_try_from(from_str_radix(Fields(line)[1]).val).ok

CharOf(line) == format_char(char_try_from(from_str_radix(Fields(line)[1]).val).val)

\* the second field is <control>, whatever the case of its letters
IsControl(line) ==
    /\ Len(Fields(line)) >= 2
    /\ Len(Fields(line)[2]) = Len(CONTROL)
    /\ \A i \in 1..Len(CONTROL) : LowerChar(Fields(line)[2][i]) = CONTROL[i]

\* C5 as stated: every record with a character and a name other than
\* <control> gives an entry whose prefix is the name in its original case, the
\* seven substrings removed and the spaces turned to hyphens, and whose
\* description and body are the character.
C5_AsStated ==
    started =>
        \A n \in DOMAIN Lines :
            (HasChar(Lines[n]) /\ ~IsControl(Lines[n])) =>
                \E i \in DOMAIN generated :
                    generated[i] = Snippet(get_prefix(Fields(Lines[n])[2]).val,
                                           Some(CharOf(Lines[n])), CharOf(Lines[n]))

\* C8: no entry passed to server::start has an empty body, an absent
\* description or an empty description.
C8_NoEmptyEntry ==
    started =>
        \A i \in DOMAIN snippets :
            /\ snippets[i].body # <<>>
            /\ snippets[i].description.some
            /\ snippets[i].description.val # <<>>

C8_Witness ==
    /\ started
    /\ \E j \in DOMAIN unicode : unicode[j] = <<NIL, <<>>>>
    /\ \A i \in DOMAIN snippets : snippets[i].prefix # NIL
    /\ \E i \in DOMAIN snippets : snippets[i].prefix = RIGHTARROW
    /\ generated # <<>>

\* the mnemonics of the curated table, each once, in the order in which the
\* table first names them
RECURSIVE TableOrder(_, _)
TableOrder(pairs, seen) ==
    IF pairs = <<>> THEN <<>>
    ELSE IF Head(pairs)[1] \in seen THEN TableOrder(Tail(pairs), seen)
    ELSE <<Head(pairs)[1]>> \o TableOrder(Tail(pairs), seen \cup {Head(pairs)[1]})

\* the value the table gives a mnemonic: that of the last pair naming it
ValueOf(name) ==
    unicode[CHOOSE j \in DOMAIN unicode :
                /\ unicode[j][1] = name
                /\ \A k \in DOMAIN unicode : unicode[k][1] = name => k <= j][2]

CuratedEntry(name) == Snippet(name, Some(ValueOf(name)), ValueOf(name))

\* the records that give an entry, in file order
RecordEntries ==
    LET giving == SelectSeq(Lines, LAMBDA l : parse_line(l).some)
    IN  [i \in 1..Len(giving) |-> parse_line(giving[i]).val]

\* C9 as stated: the output is the generated entries in file order, then the
\* curated entries in the order of the curated table.
C9_AsStated ==
    started =>
        LET order == TableOrder(unicode, {}) IN
        snippets = SelectSeq(RecordEntries
                               \o [i \in 1..Len(order) |-> CuratedEntry(order[i])],
                             keep)

\* C9 amended: the output is the generated entries in file order, then the
\* curated entries, one for each mnemonic of the table, in some order.
C9_GeneratedThenCurated ==
    started =>
        LET head == SelectSeq(RecordEntries, keep)
            tail == SubSeq(snippets, Len(head) + 1, Len(snippets))
            names == {name \in {unicode[j][1] : j \in DOMAIN unicode} :
                          ValueOf(name) # <<>>}
        IN  /\ Len(snippets) >= Len(head)
            /\ SubSeq(snippets, 1, Len(head)) = head
            /\ Len(tail) = Cardinality(names)
            /\ \A name \in names : \E i \in DOMAIN tail : tail[i] = CuratedEntry(name)

C9_Witness ==
    /\ started
    /\ Len(generated) = 1
    /\ Len(snippets) = 3
    /\ snippets[1] = generated[1]
    /\ TableOrder(unicode, {}) = <<RIGHTARROW, LEFTRIGHTARROW>>
    /\ snippets[2].prefix = LEFTRIGHTARROW
    /\ snippets[3].prefix = RIGHTARROW

\* C10: a record whose second field is <control> in any letter case gives no
\* entry, and the generated entries are those the file gives without such
\* records.
C10_ControlSkipped ==
    started =>
        /\ generated = generate(SelectSeq(Lines, LAMBDA l : ~IsControl(l)), <<>>)
        /\ Len(generated) <=
             Cardinality({n \in DOMAIN Lines : ~IsControl(Lines[n])})
        /\ \A i \in DOMAIN generated : generated[i].prefix # CONTROL

C10_Witness ==
    /\ started
    /\ Len(Lines) = 3
    /\ HasChar(Lines[1]) /\ ~IsControl(Lines[1])
    /\ IsControl(Lines[2]) /\ Fields(Lines[2])[2] # CONTROL
    /\ HasChar(Lines[3]) /\ ~IsControl(Lines[3])
    /\ Len(generated) = 2
    /\ generated[1].body = CharOf(Lines[1])
    /\ generated[2].body = CharOf(Lines[3])

\* the positions of the output that hold curated entries: those after the
\* generated entries
CuratedPositions ==
    {i \in DOMAIN snippets : i > Len(SelectSeq(generated, keep))}

\* C11: for every mnemonic written in the curated table, once or more than
\* once, with a symbol whose text is not empty, the output holds exactly one
\* curated entry of that prefix, and its description and body are the text
\* of the symbol.
C11_OneEntryPerMnemonic ==
    started =>
        \A j \in DOMAIN unicode :
            unicode[j][2] # <<>> =>
                /\ Cardinality({i \in CuratedPositions :
                                    snippets[i].prefix = unicode[j][1]}) = 1
                /\ \A i \in CuratedPositions :
                        snippets[i].prefix = unicode[j][1] =>
                            /\ snippets[i].description = Some(unicode[j][2])
                            /\ snippets[i].body = unicode[j][2]

C11_Witness ==
    /\ started
    /\ Len(unicode) = 3
    /\ unicode[1][1] = LEFTRIGHTARROW
    /\ unicode[2][1] = RIGHTARROW
    /\ unicode[3][1] = LEFTRIGHTARROW
    /\ Len(snippets) = 2
    /\ \E i \in CuratedPositions :
            /\ snippets[i].prefix = RIGHTARROW
            /\ snippets[i].body = format_char(Chr(8594))

\* the positions of the log where the status is emitted
StatusAt(log, status) ==
    {i \in DOMAIN log : log[i].op = "set_status" /\ log[i].arg = status}

OpAt(log, op) == {i \in DOMAIN log : log[i].op = op}

\* C12 as stated: a call that reaches the download tier emits
\* checking-for-update and then downloading, both before the release query,
\* and a call served by tiers 1 to 3 emits no status.
C12_AsStated ==
    last.called =>
        /\ last.tier = 4 =>
             \E c \in StatusAt(last.log, CheckingForUpdate) :
             \E d \in StatusAt(last.log, Downloading) :
                /\ c < d
                /\ \A q \in OpAt(last.log, "latest_github_release") : d < q
        /\ last.tier \in {1, 2, 3} => OpAt(last.log, "set_status") = {}

\* C12 amended: every call emits checking-for-update once, before anything
\* else; downloading is emitted only by a call that reaches the download
\* tier, once, after the release query and right before download_file, and
\* only when the binary of the release is not yet a file.
C12_StatusOrder ==
    last.called =>
        /\ StatusAt(last.log, CheckingForUpdate) = {1}
        /\ \A d \in StatusAt(last.log, Downloading) :
                /\ last.tier = 4
                /\ StatusAt(last.log, Downloading) = {d}
                /\ \E q \in OpAt(last.log, "latest_github_release") :
                        q < d /\ last.log[q].ok
                /\ d < Len(last.log)
                /\ last.log[d + 1].op = "download_file"
                /\ ~FileExists(last.disk0, ReleasePath)
        /\ \A f \in OpAt(last.log, "download_file") :
                f - 1 \in StatusAt(last.log, Downloading)
        /\ last.tier \in {0, 1, 2, 3} => StatusAt(last.log, Downloading) = {}

C12_Witness ==
    /\ last.called
    /\ last.tier = 4
    /\ last.res.ok
    /\ StatusAt(last.log, CheckingForUpdate) = {1}
    /\ \E d \in StatusAt(last.log, Downloading) :
            /\ last.log[d - 1].op = "latest_github_release"
            /\ last.log[d + 1].op = "download_file"

\* the release the call was answered carries the archive of this platform
AssetOffered ==
    /\ last.release.some
    /\ last.release.val.ok
    /\ \E i \in DOMAIN last.release.val.val.assets :
            last.release.val.val.assets[i].name =
                target_triple(platform, U_LS).val \o DOT_ZIP

\* download reached line 61 and found the binary of the release in place
BinaryInPlace ==
    /\ last.called
    /\ last.tier = 4
    /\ AssetOffered
    /\ FileExists(last.disk0, ReleasePath)

\* C13: when download finds the binary of the release already a file, it
\* emits no downloading status, calls no download_file, lists nothing and
\* removes nothing, and the working directory is as before; a listing or a
\* removal happens only after a download_file that succeeded in that call.
C13_PresentBinarySkipsDownload ==
    /\ BinaryInPlace =>
          /\ Ops(last.log) \cap {"download_file", "read_dir", "remove_dir_all"} = {}
          /\ StatusAt(last.log, Downloading) = {}
          /\ disk = last.disk0
    /\ last.called =>
          \A i \in OpAt(last.log, "read_dir") \cup OpAt(last.log, "remove_dir_all") :
              \E f \in OpAt(last.log, "download_file") : f < i /\ last.log[f].ok

C13_Witness ==
    /\ BinaryInPlace
    /\ last.res = Ok(ReleasePath)
    /\ KindEntries(last.disk0) \ {ReleaseDir} # {}
    /\ disk = last.disk0
    /\ last.log[Len(last.log)].op = "make_file_executable"

\* the previous call extracted the archive of a release and then returned an
\* error, and the binary it extracted is still a file
ExtractedThenFailed ==
    /\ last.called
    /\ last.prev0.extracted.some
    /\ ~last.prev0.res.ok
    /\ FileExists(last.disk0, binary_path(last.prev0.extracted.val, U_LS))
    /\ last.wt = {}

\* the release the call was answered, if it asked, is the one extracted
SameRelease ==
    last.release.some => (AssetOffered /\ ReleaseDir = last.prev0.extracted.val)

MadeExecutable ==
    \E i \in OpAt(last.log, "make_file_executable") : last.log[i].ok

\* C14 as stated: after a call that extracted version v and then failed, the
\* next call, its workspace lookups missing and the release still v, goes
\* through the download tier without a download_file and, when
\* make_file_executable succeeds, returns and caches the path of v.
C14_AsStated ==
    (ExtractedThenFailed /\ SameRelease) =>
        /\ last.tier = 4
        /\ ~Downloaded(last.log)
        /\ MadeExecutable =>
              /\ last.res = Ok(binary_path(last.prev0.extracted.val, U_LS))
              /\ cached_ls_binary_path =
                    Some(binary_path(last.prev0.extracted.val, U_LS))

\* C14 amended: such a call makes no download_file; it is served from the
\* cache, returning the path of v, when the cache already holds that path,
\* and otherwise goes through the download tier, where it returns and caches
\* the path of v when make_file_executable succeeds.
C14_ReResolvesWithoutDownload ==
    (ExtractedThenFailed /\ SameRelease) =>
        LET path == binary_path(last.prev0.extracted.val, U_LS) IN
        /\ ~Downloaded(last.log)
        /\ IF last.cache0 = Some(path)
           THEN /\ last.tier = 3
                /\ last.res = Ok(path)
                /\ ~Queried(last.log)
                /\ cached_ls_binary_path = last.cache0
           ELSE /\ last.tier = 4
                /\ MadeExecutable =>
                      /\ last.res = Ok(path)
                      /\ cached_ls_binary_path = Some(path)

C14_Witness ==
    /\ ExtractedThenFailed
    /\ SameRelease
    /\ last.tier = 4
    /\ ~Downloaded(last.log)
    /\ MadeExecutable
    /\ cached_ls_binary_path = Some(binary_path(last.prev0.extracted.val, U_LS))
    /\ cached_ls_binary_path # last.cache0

\* the listing of the working directory failed, or the read of one entry did
ScanFailed ==
    \E i \in OpAt(last.log, "read_dir") \cup OpAt(last.log, "next_entry") :
        ~last.log[i].ok

\* C15: in a call that downloaded, a removal that fails does not fail the
\* call: every stale entry is still attempted, and the call returns Ok with
\* the new path whenever the scan and make_file_executable succeed; a failed
\* listing or a failed read of an entry makes the call return an error, with
\* the new version already extracted and no make_file_executable.
C15_RemovalFailuresIgnored ==
    (last.called /\ \E f \in OpAt(last.log, "download_file") : last.log[f].ok) =>
        /\ ~ScanFailed =>
              /\ \A n \in KindEntries(last.disk0) \ {ReleaseDir} :
                    \E i \in OpAt(last.log, "remove_dir_all") : last.log[i].arg = n
              /\ OpAt(last.log, "make_file_executable") # {}
              /\ MadeExecutable => last.res = Ok(ReleasePath)
        /\ ScanFailed =>
              /\ ~last.res.ok
              /\ FileExists(disk, ReleasePath)
              /\ OpAt(last.log, "make_file_executable") = {}
              /\ cached_ls_binary_path = last.cache0

C15_Witness ==
    /\ last.called
    /\ Downloaded(last.log)
    /\ last.res.ok
    /\ last.res = Ok(ReleasePath)
    /\ \E i \in OpAt(last.log, "remove_dir_all") :
            /\ ~last.log[i].ok
            /\ disk[last.log[i].arg] # "absent"
            /\ i < Len(last.log)

\* the entries whose removal the call attempted
RemovalAttempted ==
    {last.log[i].arg : i \in OpAt(last.log, "remove_dir_all")}

\* C16: in a call that downloaded, the removals attempted are of entries
\* whose name starts with the kind and is not the new version directory, each
\* once, and of all of them when the scan does not fail; the new version
\* directory is not removed, and an entry whose name does not start with the
\* kind is left as it was.
C16_OnlyStaleEntriesRemoved ==
    (last.called /\ \E f \in OpAt(last.log, "download_file") : last.log[f].ok) =>
        /\ RemovalAttempted \subseteq KindEntries(last.disk0) \ {ReleaseDir}
        /\ ~ScanFailed => RemovalAttempted = KindEntries(last.disk0) \ {ReleaseDir}
        /\ Cardinality(OpAt(last.log, "remove_dir_all")) = Cardinality(RemovalAttempted)
        /\ disk[ReleaseDir] = "bin"
        /\ \A n \in EntryNames :
              /\ ~starts_with(n, U_LS) => disk[n] = last.disk0[n]
              /\ (n \notin RemovalAttempted /\ n # ReleaseDir) => disk[n] = last.disk0[n]

C16_Witness ==
    /\ last.called
    /\ Downloaded(last.log)
    /\ last.res.ok
    /\ last.res = Ok(ReleasePath)
    /\ last.disk0[DATA_DIR] = "dir"
    /\ disk[DATA_DIR] = "dir"
    /\ disk[ReleaseDir] = "bin"
    /\ \E n \in RemovalAttempted : last.disk0[n] # "absent" /\ disk[n] = "absent"

\* C17: on a platform target_triple rejects, a call whose lookup of the plain
\* name misses returns the error of target_triple after that lookup alone:
\* no second lookup, no release query, no download, and the cache and the
\* working directory are as before.
C17_UnsupportedPlatformFails ==
    (/\ last.called
     /\ ~target_triple(platform, U_LS).ok
     /\ U_LS \notin last.wt)
    => /\ last.res = target_triple(platform, U_LS)
       /\ ~last.res.ok
       /\ Len(last.log) = 2
       /\ last.log[1].op = "set_status"
       /\ last.log[2] = Ev("which", U_LS, <<>>, FALSE)
       /\ ~Queried(last.log)
       /\ ~Downloaded(last.log)
       /\ cached_ls_binary_path = last.cache0
       /\ disk = last.disk0

C17_Witness ==
    /\ last.called
    /\ platform = [os |-> "Windows", arch |-> "X86"]
    /\ last.wt = {}
    /\ last.res = Err("unsupported architecture: X86")
    /\ \E n \in EntryNames : disk[n] = "bin"

\* "<target-triple>.zip" on this platform
ArchiveName == target_triple(platform, U_LS).val \o DOT_ZIP

\* C18: when the release answered has no asset named exactly
\* <target-triple>.zip, download returns the asset-not-found error without a
\* downloading status or a download_file, and the working directory and the
\* cache are as before; every download_file is given the URL of the asset of
\* that exact name and the directory <kind>-<version>.
C18_ExactAssetName ==
    last.called =>
        /\ (/\ last.tier = 4
            /\ last.release.val.ok
            /\ \A i \in DOMAIN last.release.val.val.assets :
                    last.release.val.val.assets[i].name # ArchiveName)
           => /\ last.res = Err("no asset found matching")
              /\ ~Downloaded(last.log)
              /\ StatusAt(last.log, Downloading) = {}
              /\ disk = last.disk0
              /\ cached_ls_binary_path = last.cache0
        /\ \A f \in OpAt(last.log, "download_file") :
              /\ \E i \in DOMAIN last.release.val.val.assets :
                    /\ last.release.val.val.assets[i].name = ArchiveName
                    /\ last.release.val.val.assets[i].download_url = last.log[f].arg
              /\ last.log[f].arg = URL_PREFIX \o ArchiveName
              /\ last.log[f].to = ReleaseDir

C18_Witness ==
    /\ last.called
    /\ last.tier = 4
    /\ last.release.val.ok
    /\ Len(last.release.val.val.assets) = 1
    /\ last.release.val.val.assets[1].name = ArchiveName \o DOT_SHA256
    /\ last.res = Err("no asset found matching")
    /\ disk = last.disk0

\* a record of fewer than two fields, or whose first field is no hexadecimal
\* number, or is the number of no character
Malformed(line) == ~HasChar(line)

\* C19: the generated entries of a record file are those of the same file
\* without its malformed lines, and there are no more of them than lines
\* that are well formed.
C19_MalformedSkipped ==
    started =>
        /\ generated = generate(SelectSeq(Lines, LAMBDA l : ~Malformed(l)), <<>>)
        /\ Len(generated) <= Cardinality({n \in DOMAIN Lines : ~Malformed(Lines[n])})
        /\ \A n \in DOMAIN Lines :
              (~Malformed(Lines[n]) /\ ~IsControl(Lines[n])) =>
                  \E i \in DOMAIN generated : generated[i].body = CharOf(Lines[n])

C19_Witness ==
    /\ started
    /\ Len(Lines) = 3
    /\ Malformed(Lines[1])
    /\ ~Malformed(Lines[2]) /\ ~IsControl(Lines[2])
    /\ Malformed(Lines[3])
    /\ Len(Fields(Lines[1])) >= 2
    /\ Len(Fields(Lines[3])) < 2
    /\ Len(generated) = 1
    /\ generated[1].body = CharOf(Lines[2])

\* C20: a call that returns Ok through the download tier leaves in the cache
\* the path it returns, unicode-ls-<version>/unicode-ls; a call that ends in
\* any other way leaves the cache as it was; a call makes one release query
\* at most and one download_file at most.
C20_CacheWrittenOnlyByDownload ==
    last.called =>
        /\ IF last.tier = 4 /\ last.res.ok
           THEN /\ cached_ls_binary_path = Some(last.res.val)
                /\ \E v \in Versions :
                        last.res.val = U_LS \o <<"-">> \o v \o <<"/">> \o U_LS
                /\ last.res.val = ReleasePath
           ELSE cached_ls_binary_path = last.cache0
        /\ Cardinality(OpAt(last.log, "latest_github_release")) <= 1
        /\ Cardinality(OpAt(last.log, "download_file")) <= 1

C20_Witness ==
    /\ last.called
    /\ last.tier = 4
    /\ ~last.res.ok
    /\ Downloaded(last.log)
    /\ last.cache0.some
    /\ cached_ls_binary_path = last.cache0

====
